---- MODULE Spec2Model ----
(***************************************************************************)
(* Model of src/rss_aggregator.py: the feed store (tables feeds and        *)
(* feed_items), single-feed refresh, fleet refresh, the item flag          *)
(* operations and the deduplication sweep.                                  *)
(*                                                                          *)
(* Spec     : every public method is one atomic action (complete,          *)
(*            non-overlapping calls).                                       *)
(* SpecConc : two callers whose refresh and add_feed calls interleave at   *)
(*            the granularity of the SQL statements each one executes.     *)
(***************************************************************************)
EXTENDS Integers, Sequences, FiniteSets, TLC

VARIABLES feeds, items, fts, clock, last, fleet, pc, loc, probe

vars == <<feeds, items, fts, clock, last, fleet, pc, loc, probe>>

(***************************************************************************)
(* Bounds of the model.                                                     *)
(***************************************************************************)
MaxItemIds == 3
MaxClock == 4
\* the most characters, title and url together, that _fingerprint is
\* applied to on its own
MaxText == 3

\* the arguments add_feed is called with: two of them share a URL, and two
\* of them name a category without a SAMPLE_FEEDS list of its own
AddInputs ==
    { [name |-> "n1", url |-> "u1", category |-> "tech-news"],
      [name |-> "n2", url |-> "u1", category |-> "general"],
      [name |-> "n3", url |-> "u2", category |-> "tech"] }

ItemIds == 1..MaxItemIds
\* an id that never names a stored record ("nonexistent-id" in the tests)
NoId == 0
\* the ids a caller passes: those of the stored records, and one of no record
FeedArgs(fs) == DOMAIN fs \cup {NoId}
ItemArgs(its) == DOMAIN its \cup {NoId}
Threads == {1, 2}

NULL == "NULL"
\* NULL in the column last_fetched, whose values are times
NullTime == 0 - 1

(***************************************************************************)
(* Text: a string is a sequence of one-character strings.                   *)
(***************************************************************************)
Upper == <<"A", "B", "C", "D", "E", "F", "G", "S">>
Lower == <<"a", "b", "c", "d", "e", "f", "g", "s">>

\* the characters str.strip() removes
Whitespace == {" ", "\t", "\n"}

lower_char(c) ==
    IF \E i \in DOMAIN Upper : Upper[i] = c
    THEN Lower[CHOOSE i \in DOMAIN Upper : Upper[i] = c]
    ELSE c

lower(s) == [i \in 1..Len(s) |-> lower_char(s[i])]

RECURSIVE lstrip(_)
lstrip(s) ==
    IF s # <<>> /\ Head(s) \in Whitespace THEN lstrip(Tail(s)) ELSE s

RECURSIVE rstrip(_)
rstrip(s) ==
    IF s # <<>> /\ s[Len(s)] \in Whitespace
    THEN rstrip(SubSeq(s, 1, Len(s) - 1)) ELSE s

\* a strip() that trims the left end only
strip_LeftOnly(s) == lstrip(s)

strip(s) == rstrip(lstrip(s))

\* hashlib.sha256(text).hexdigest()[:16], taken as injective on the text
sha256_16(text) == text

\* a fingerprint with a separator between the title and the url
_fingerprint_Separated(title, url) ==
    sha256_16(strip(lower(title)) \o <<"|">> \o strip(lower(url)))

_fingerprint(title, url) == sha256_16(strip(lower(title)) \o strip(lower(url)))

(***************************************************************************)
(* The fetcher (_simulate_fetch, lines 187-202): the content of a feed is  *)
(* the SAMPLE_FEEDS list of its category, or of "default" for a category   *)
(* that is not a key.  An entry is kept as (title, url).  A title is a     *)
(* sequence of capital letters, one letter for a word of the source's      *)
(* title, and a url one small letter; the seven entries are pairwise       *)
(* distinct, as they are in the source, and the two titles of "default"    *)
(* share a word ("Sample Article 1", "Sample Article 2").                   *)
(***************************************************************************)
Raw(title, url) == [title |-> title, url |-> <<url>>]

SAMPLE_FEEDS ==
    [key \in {"tech-news", "science", "default"} |->
        IF key = "tech-news"
        THEN <<Raw(<<"A">>, "a"), Raw(<<"B">>, "b"), Raw(<<"C">>, "c")>>
        ELSE IF key = "science"
        THEN <<Raw(<<"D">>, "d"), Raw(<<"E">>, "e")>>
        ELSE <<Raw(<<"S", "F">>, "f"), Raw(<<"S", "G">>, "g")>>]

\* "published_at": pub_time = now - timedelta(hours=i * 6), in hours, with
\* one call of a public method per day
published_at(now, i) == now * 24 - i * 6

\* AggregatorConfig.max_items_per_feed (100 unless the aggregator is
\* constructed with another value): the aggregator of the model is configured
\* to take two entries from a feed
max_items_per_feed == 2

\* len(items[:self.config.max_items_per_feed])
Taken(entries) ==
    IF Len(entries) < max_items_per_feed
    THEN Len(entries) ELSE max_items_per_feed

_simulate_fetch(feed, now) ==
    LET key == IF feed.category \in DOMAIN SAMPLE_FEEDS
               THEN feed.category ELSE "default"
        entries == SAMPLE_FEEDS[key]
    IN  [i \in 1..Taken(entries) |->
            [title |-> entries[i].title, url |-> entries[i].url,
             published_at |-> published_at(now, i - 1)]]

FetchError == "fetch failed"
StoreError == "store failed"

(***************************************************************************)
(* Store helpers: one definition per SQL statement of the source.          *)
(***************************************************************************)
\* SELECT * FROM feeds WHERE url=?
FeedsByUrl(fs, url) == {f \in DOMAIN fs : fs[f].url = url}

\* INSERT OR IGNORE with no UNIQUE constraint on url
InsertFeedOrIgnore_NoUrlConstraint(fs, feed_id, name, url, category) ==
    IF feed_id \in DOMAIN fs
    THEN fs
    ELSE [f \in DOMAIN fs \cup {feed_id} |->
            IF f = feed_id
            THEN [name |-> name, url |-> url, category |-> category,
                  status |-> "active", last_fetched |-> NullTime,
                  error_message |-> NULL, item_count |-> 0]
            ELSE fs[f]]

\* INSERT OR IGNORE INTO feeds ...: url is UNIQUE, id is the primary key
InsertFeedOrIgnore(fs, feed_id, name, url, category) ==
    IF FeedsByUrl(fs, url) # {} \/ feed_id \in DOMAIN fs
    THEN fs
    ELSE [f \in DOMAIN fs \cup {feed_id} |->
            IF f = feed_id
            THEN [name |-> name, url |-> url, category |-> category,
                  status |-> "active", last_fetched |-> NullTime,
                  error_message |-> NULL, item_count |-> 0]
            ELSE fs[f]]

\* an existence check that misses the row with the lowest id
ItemExists_NotLowestId(its, fp) ==
    \E i, j \in DOMAIN its : j < i /\ its[i].fingerprint = fp

\* the existence check on the wrong column
ItemExists_ByTitle(its, fp) == \E i \in DOMAIN its : its[i].title = fp

\* SELECT id FROM feed_items WHERE fingerprint=?  ... if existing:
ItemExists(its, fp) == \E i \in DOMAIN its : its[i].fingerprint = fp

\* the rowid SQLite gives a row inserted into feed_items (the table has a
\* TEXT primary key, so the rowid is implicit): one more than the largest
\* rowid in the table, 1 in an empty table
Rowids(its) == {its[i].rowid : i \in DOMAIN its}

NextRowid(its) ==
    IF its = <<>> THEN 1
    ELSE (CHOOSE r \in Rowids(its) : \A q \in Rowids(its) : q <= r) + 1

\* an INSERT OR REPLACE under a unique fingerprint: the rows that hold the
\* fingerprint are deleted for the new row
InsertItem_Replacing(its, item_id, feed_id, raw, fp) ==
    [i \in {j \in DOMAIN its : its[j].fingerprint # fp} \cup {item_id} |->
        IF i = item_id
        THEN [rowid |-> NextRowid(its), feed_id |-> feed_id,
              title |-> raw.title, url |-> raw.url,
              published_at |-> raw.published_at, fingerprint |-> fp,
              is_read |-> FALSE, is_bookmarked |-> FALSE]
        ELSE its[i]]

\* INSERT INTO feed_items (...) VALUES (..., 0, 0, ?)
InsertItem(its, item_id, feed_id, raw, fp) ==
    [i \in DOMAIN its \cup {item_id} |->
        IF i = item_id
        THEN [rowid |-> NextRowid(its), feed_id |-> feed_id,
              title |-> raw.title, url |-> raw.url,
              published_at |-> raw.published_at, fingerprint |-> fp,
              is_read |-> FALSE, is_bookmarked |-> FALSE]
        ELSE its[i]]

(***************************************************************************)
(* The full-text index feed_items_fts (lines 136-147): rowid -> the terms  *)
(* indexed for that row.  The entries of the model carry a title and no    *)
(* summary or author, so the terms of a row are the words of its title,    *)
(* in lower case as the tokenizer folds them.                               *)
(***************************************************************************)
Terms(title) == {lower_char(title[k]) : k \in 1..Len(title)}

\* TRIGGER feed_items_ai AFTER INSERT ON feed_items, for the rows inserted
feed_items_ai(idx, rows) ==
    [r \in DOMAIN idx \cup {row.rowid : row \in rows} |->
        IF \E row \in rows : row.rowid = r
        THEN Terms((CHOOSE row \in rows : row.rowid = r).title)
        ELSE idx[r]]

\* a schema without the AFTER DELETE trigger
feed_items_ad_Missing(idx, rows) == idx

\* TRIGGER feed_items_ad AFTER DELETE ON feed_items, for the rows deleted
feed_items_ad(idx, rows) ==
    [r \in DOMAIN idx \ {row.rowid : row \in rows} |-> idx[r]]

\* the triggers a statement fires that takes feed_items from old to new
Triggers(idx, old, new) ==
    LET deleted == {old[i] : i \in DOMAIN old \ DOMAIN new}
        inserted == {new[i] : i \in DOMAIN new \ DOMAIN old}
    IN  feed_items_ai(feed_items_ad(idx, deleted), inserted)

\* a count over the items of every feed
CountItems_AllFeeds(its, feed_id) == Cardinality(DOMAIN its)

\* SELECT COUNT(*) FROM feed_items WHERE feed_id=?
CountItems(its, feed_id) ==
    Cardinality({i \in DOMAIN its : its[i].feed_id = feed_id})

\* a final update that leaves item_count as it was
UpdateFetched_CountKept(fs, feed_id, now, total) ==
    [f \in DOMAIN fs |->
        IF f = feed_id
        THEN [fs[f] EXCEPT !.last_fetched = now, !.status = "active"]
        ELSE fs[f]]

\* UPDATE feeds SET last_fetched=?, status='active', item_count=? WHERE id=?
UpdateFetched(fs, feed_id, now, total) ==
    [f \in DOMAIN fs |->
        IF f = feed_id
        THEN [fs[f] EXCEPT !.last_fetched = now, !.status = "active",
                           !.item_count = total]
        ELSE fs[f]]

\* an error update that stores no message
SetError_NoMessage(fs, feed_id, msg) ==
    [f \in DOMAIN fs |->
        IF f = feed_id THEN [fs[f] EXCEPT !.status = "error"] ELSE fs[f]]

\* UPDATE feeds SET status='error', error_message=? WHERE id=?
SetError(fs, feed_id, msg) ==
    [f \in DOMAIN fs |->
        IF f = feed_id
        THEN [fs[f] EXCEPT !.status = "error", !.error_message = msg]
        ELSE fs[f]]

\* UPDATE feeds SET status=? WHERE id=?
SetStatus(fs, feed_id, status) ==
    [f \in DOMAIN fs |->
        IF f = feed_id THEN [fs[f] EXCEPT !.status = status] ELSE fs[f]]

\* an update of the read flag that also clears the bookmark
SetRead_ClearsBookmark(its, item_id, v) ==
    [i \in DOMAIN its |->
        IF i = item_id
        THEN [its[i] EXCEPT !.is_read = v, !.is_bookmarked = FALSE]
        ELSE its[i]]

\* UPDATE feed_items SET is_read=? WHERE id=?
SetRead(its, item_id, v) ==
    [i \in DOMAIN its |->
        IF i = item_id THEN [its[i] EXCEPT !.is_read = v] ELSE its[i]]

\* UPDATE feed_items SET is_bookmarked=? WHERE id=?
SetBookmarked(its, item_id, v) ==
    [i \in DOMAIN its |->
        IF i = item_id THEN [its[i] EXCEPT !.is_bookmarked = v] ELSE its[i]]

\* a rowcount that counts only the rows whose values changed
rowcount_ChangedRows(old, new, id) ==
    IF id \in DOMAIN old /\ new[id] # old[id] THEN 1 ELSE 0

\* result.rowcount of an UPDATE ... WHERE id=?: the rows the WHERE clause
\* matched, whether or not the SET changed them
rowcount(old, new, id) == IF id \in DOMAIN old THEN 1 ELSE 0

(***************************************************************************)
(* Results returned to the caller.                                          *)
(***************************************************************************)
Result(kind, feed_id, n, d, t, err) ==
    [kind |-> kind, feed_id |-> feed_id, new_items |-> n, duplicates |-> d,
     total_items |-> t, error |-> err]

\* a missing feed reported as a skip
NotFound_AsSkipped(feed_id) ==
    [kind |-> "skipped", feed_id |-> feed_id, new_items |-> 0,
     duplicates |-> 0, total_items |-> 0, error |-> NULL]

\* raise ValueError(f"Feed {feed_id} not found")
NotFound(feed_id) == Result("not_found", feed_id, 0, 0, 0, NULL)
\* {"feed_id": feed_id, "skipped": True, "reason": "paused"}
Skipped(feed_id) == Result("skipped", feed_id, 0, 0, 0, NULL)
\* a summary that counts only the duplicates of already counted items
Summary_DuplicatesDropped(feed_id, n, d, t) ==
    [kind |-> "summary", feed_id |-> feed_id, new_items |-> n,
     duplicates |-> 0, total_items |-> t, error |-> NULL]

\* {"feed_id", "new_items", "duplicates", "total_items"}
Summary(feed_id, n, d, t) == Result("summary", feed_id, n, d, t, NULL)
\* the exception re-raised by refresh's except clause
Raised(feed_id, msg) == Result("raised", feed_id, 0, 0, 0, msg)
\* refresh_all's entry {"feed_id": ..., "error": str(e)}
ErrorEntry(feed_id, msg) == Result("error", feed_id, 0, 0, 0, msg)
\* the boolean of pause/resume/mark/bookmark (result.rowcount > 0)
Bool(b) == [kind |-> "bool", ok |-> b]
\* add_feed's returned Feed
Returned(feed_id) == [kind |-> "feed", feed_id |-> feed_id]
\* {"duplicates_removed": removed}
Removed(n) == [kind |-> "removed", duplicates_removed |-> n]

(***************************************************************************)
(* refresh (lines 204-258).                                                 *)
(* fault: which statement of this call raises.  NoFault: none; 0: the      *)
(* fetch; k in 1..Len(raw_items): the store while item k is processed;     *)
(* any larger k: the store in the final count/update block.                *)
(* ids: the uuid4 values this call draws, in order.                         *)
(***************************************************************************)
NoFault == 0 - 1

\* the longest list the fetcher returns
MaxFetch ==
    CHOOSE n \in 0..max_items_per_feed :
        /\ \A key \in DOMAIN SAMPLE_FEEDS : Taken(SAMPLE_FEEDS[key]) <= n
        /\ \E key \in DOMAIN SAMPLE_FEEDS : Taken(SAMPLE_FEEDS[key]) = n

Faults == {NoFault} \cup (0..(MaxFetch + 1))

\* the for loop over raw_items, lines 217-235
RECURSIVE RefreshLoop(_, _, _, _, _, _, _, _)
RefreshLoop(its, feed_id, raw_items, k, fault, ids, new_count, dup_count) ==
    IF k > Len(raw_items)
    THEN [items |-> its, new_count |-> new_count, dup_count |-> dup_count,
          raised |-> FALSE, short |-> FALSE, ids |-> ids]
    ELSE IF fault = k
    THEN [items |-> its, new_count |-> new_count, dup_count |-> dup_count,
          raised |-> TRUE, short |-> FALSE, ids |-> ids]
    ELSE LET raw == raw_items[k]
             fp == _fingerprint(raw.title, raw.url)
         IN  IF ItemExists(its, fp)
             THEN RefreshLoop(its, feed_id, raw_items, k + 1, fault, ids,
                              new_count, dup_count + 1)
             ELSE IF ids = <<>>
             THEN [items |-> its, new_count |-> new_count,
                   dup_count |-> dup_count, raised |-> FALSE,
                   short |-> TRUE, ids |-> ids]
             ELSE RefreshLoop(InsertItem(its, Head(ids), feed_id, raw, fp),
                              feed_id, raw_items, k + 1, fault, Tail(ids),
                              new_count + 1, dup_count)

\* feed = self.get_feed(feed_id); if not feed:
FeedMissing(fs, feed_id) == feed_id \notin DOMAIN fs

\* the paused test against the wrong status
IsPaused_TestsError(feed) == feed.status = "error"

\* if feed.status == FeedStatus.PAUSED.value:
IsPaused(feed) == feed.status = "paused"

\* One complete call at time now.  Returns the store after it, the result,
\* whether the fetcher was invoked and the unused ids; short = the model's
\* id pool ran out.
refresh(fs, its, feed_id, fault, ids, now) ==
    LET same(res) == [feeds |-> fs, items |-> its, res |-> res,
                      fetched |-> FALSE, short |-> FALSE, ids |-> ids]
    IN
    IF FeedMissing(fs, feed_id) THEN same(NotFound(feed_id))
    ELSE IF IsPaused(fs[feed_id]) THEN same(Skipped(feed_id))
    ELSE IF fault = 0
    THEN [same(Raised(feed_id, FetchError))
             EXCEPT !.feeds = SetError(fs, feed_id, FetchError),
                    !.fetched = TRUE]
    ELSE LET raw_items == _simulate_fetch(fs[feed_id], now)
             lp == RefreshLoop(its, feed_id, raw_items, 1, fault, ids, 0, 0)
             total == CountItems(lp.items, feed_id)
         IN  IF lp.raised \/ fault > Len(raw_items)
             THEN [feeds |-> SetError(fs, feed_id, StoreError),
                   items |-> lp.items, res |-> Raised(feed_id, StoreError),
                   fetched |-> TRUE, short |-> lp.short, ids |-> lp.ids]
             ELSE [feeds |-> UpdateFetched(fs, feed_id, now, total),
                   items |-> lp.items,
                   res |-> Summary(feed_id, lp.new_count, lp.dup_count, total),
                   fetched |-> TRUE, short |-> lp.short, ids |-> lp.ids]

(***************************************************************************)
(* deduplicate (lines 366-384).                                             *)
(***************************************************************************)
Group(its, fp) == {i \in DOMAIN its : its[i].fingerprint = fp}

\* MAX(id) for MIN(id)
Min_Greatest(S) == CHOOSE m \in S : \A n \in S : m >= n

\* MIN(id)
Min(S) == CHOOSE m \in S : \A n \in S : m <= n

\* the grouping with HAVING cnt > 2
Dups_MoreThanTwo(its) ==
    { [fingerprint |-> its[i].fingerprint,
       keep_id |-> Min(Group(its, its[i].fingerprint))] :
         i \in {j \in DOMAIN its : Cardinality(Group(its, its[j].fingerprint)) > 2} }

\* SELECT fingerprint, COUNT(*) as cnt, MIN(id) as keep_id ... HAVING cnt > 1
Dups(its) ==
    { [fingerprint |-> its[i].fingerprint,
       keep_id |-> Min(Group(its, its[i].fingerprint))] :
         i \in {j \in DOMAIN its : Cardinality(Group(its, its[j].fingerprint)) > 1} }

\* DELETE FROM feed_items WHERE fingerprint=? AND id != ?   (for each dup)
Deleted(its) ==
    {i \in DOMAIN its :
        \E dup \in Dups(its) :
            its[i].fingerprint = dup.fingerprint /\ i # dup.keep_id}

deduplicate(its) == [i \in DOMAIN its \ Deleted(its) |-> its[i]]

(***************************************************************************)
(* Listings (lines 337-358), as the set of ids of the rows returned.       *)
(***************************************************************************)
\* get_items' default limit
DefaultLimit == 50

\* ORDER BY published_at DESC LIMIT ?
Newest(its, S, limit) ==
    {i \in S :
        Cardinality({j \in S : its[j].published_at > its[i].published_at})
            < limit}

get_items(its, feed_id, limit, unread_only) ==
    IF unread_only
    THEN Newest(its, {i \in DOMAIN its :
                        its[i].feed_id = feed_id /\ ~its[i].is_read}, limit)
    ELSE Newest(its, {i \in DOMAIN its : its[i].feed_id = feed_id}, limit)

get_bookmarks(its) == {i \in DOMAIN its : its[i].is_bookmarked}

\* search's default limit
SearchLimit == 20

\* search (lines 305-315) for a one-word query: the rows of feed_items
\* joined to the index rows that MATCH, newest first, LIMIT ?
search(its, idx, query, limit) ==
    Newest(its, {i \in DOMAIN its :
                    /\ its[i].rowid \in DOMAIN idx
                    /\ lower_char(query) \in idx[its[i].rowid]}, limit)

(***************************************************************************)
(* History: the last completed call, its arguments and what it returned.   *)
(* again: when the call is a refresh that directly follows a successful    *)
(* refresh of the same feed (by refresh, or as the last feed of a          *)
(* refresh_all; the fetcher returns the same content for a feed every      *)
(* time), the counts of that first refresh.                                 *)
(***************************************************************************)
NotAgain == [valid |-> FALSE, new_items |-> 0, duplicates |-> 0]

\* the refresh that the last completed call ended with
Before ==
    IF last.op = "refresh" THEN last.res
    ELSE IF last.op = "refresh_all" /\ last.results # <<>>
    THEN last.results[Len(last.results)]
    ELSE Bool(FALSE)

Again(op, feed_id) ==
    IF op = "refresh" /\ Before.kind = "summary" /\ Before.feed_id = feed_id
    THEN [valid |-> TRUE, new_items |-> Before.new_items,
          duplicates |-> Before.duplicates]
    ELSE NotAgain

\* at: the time of the call; fetched: whether it invoked the fetcher
Call(op, arg, res, results, fetched, at) ==
    [op |-> op, arg |-> arg, res |-> res, results |-> results,
     again |-> Again(op, arg), at |-> at, fetched |-> fetched]

\* how many uuid4 values the call draws for its inserts
Draws(fs, its, feed_id, fault) ==
    LET r == refresh(fs, its, feed_id, fault,
                     [k \in 1..MaxFetch |-> 0 - k], 0)
    IN  MaxFetch - Len(r.ids)

\* uuid4: a fresh id.  Item ids are compared for equality and, by the
\* MIN(id) of deduplicate, for order; the lowest and the highest unused id
\* let a new id fall on either side of the ids drawn before
Extreme(S) ==
    {x \in S : (\A y \in S : x <= y) \/ (\A y \in S : x >= y)}

\* the uuid4 values a call may draw: n distinct ids not in the table
Supplies(its, n) ==
    LET free == ItemIds \ DOMAIN its
    IN  {s \in [1..n -> free] :
            \A a \in 1..n :
                s[a] \in Extreme(free \ {s[b] : b \in 1..(a - 1)})}

\* uuid4 for a new feed: the ids are only compared for equality, the
\* smallest unused one stands for any fresh value
FreshFeedId(fs) == Cardinality(DOMAIN fs) + 1

NoFleet == [running |-> FALSE, order |-> <<>>, k |-> 0, results |-> <<>>]

Idle == [op |-> "idle"]

\* no call of _fingerprint on its own has been made
NoProbe == [a |-> <<>>, b |-> <<>>, out |-> <<>>]

\* no refresh_all is in progress
Quiet == ~fleet.running

\* _now(): every call of a public method takes time; the model stops at
\* MaxClock
Tick == clock < MaxClock /\ clock' = clock + 1

\* __init__ and _init_db: the tables and the index are empty
Constructed ==
    /\ feeds = <<>>
    /\ items = <<>>
    /\ fts = <<>>
    /\ clock = 0
    /\ last = [op |-> "init", arg |-> NoId, res |-> Bool(TRUE),
               results |-> <<>>, again |-> NotAgain, at |-> 0,
               fetched |-> FALSE]
    /\ fleet = NoFleet
    /\ pc = [t \in Threads |-> "idle"]
    /\ loc = [t \in Threads |-> Idle]

Init == Constructed /\ probe = NoProbe

(***************************************************************************)
(* The public methods as atomic actions.                                    *)
(***************************************************************************)
\* add_feed, lines 160-175
AddFeed ==
    /\ Quiet
    /\ Tick
    /\ \E a \in AddInputs :
        /\ feeds' = InsertFeedOrIgnore(feeds, FreshFeedId(feeds), a.name,
                                       a.url, a.category)
        /\ \E f \in FeedsByUrl(feeds', a.url) :
              last' = Call("add_feed", a, Returned(f), <<>>, FALSE, clock + 1)
        /\ UNCHANGED <<items, fts, fleet, pc, loc, probe>>

\* refresh, lines 204-258
Refresh ==
    /\ Quiet
    /\ Tick
    /\ \E feed_id \in FeedArgs(feeds), fault \in Faults :
      \E ids \in Supplies(items, Draws(feeds, items, feed_id, fault)) :
        LET r == refresh(feeds, items, feed_id, fault, ids, clock + 1)
        IN  /\ r.res.kind \in {"not_found", "skipped"} => fault = NoFault
            /\ feeds' = r.feeds
            /\ items' = r.items
            /\ fts' = Triggers(fts, items, items')
            /\ last' = Call("refresh", feed_id, r.res, <<>>, r.fetched, clock + 1)
            /\ UNCHANGED <<fleet, pc, loc, probe>>

\* the row orders a SELECT over the set S may come back in
Orders(S) ==
    {s \in [1..Cardinality(S) -> S] :
        \A a, b \in 1..Cardinality(S) : a # b => s[a] # s[b]}

\* the selection WHERE status != 'paused'
ActiveFeeds_NotPaused(fs) == {f \in DOMAIN fs : fs[f].status # "paused"}

\* SELECT id FROM feeds WHERE status='active'
ActiveFeeds(fs) == {f \in DOMAIN fs : fs[f].status = "active"}

\* refresh_all, lines 262-266 (and 273 when no feed is active)
RefreshAllSelect ==
    /\ Quiet
    /\ Tick
    /\ \E order \in Orders(ActiveFeeds(feeds)) :
        /\ IF order = <<>>
           THEN /\ last' = Call("refresh_all", order, Bool(TRUE), <<>>, FALSE, clock + 1)
                /\ fleet' = fleet
           ELSE /\ fleet' = [running |-> TRUE, order |-> order, k |-> 1,
                             results |-> <<>>]
                /\ last' = last
        /\ UNCHANGED <<feeds, items, fts, pc, loc, probe>>

\* refresh_all, lines 267-273: one pass of the for loop, and the return
\* after the last one
RefreshAllNext ==
    /\ fleet.running
    /\ \E fault \in Faults :
        LET f == fleet.order[fleet.k] IN
        \E ids \in Supplies(items, Draws(feeds, items, f, fault)) :
          LET r == refresh(feeds, items, f, fault, ids, clock)
              entry == IF r.res.kind \in {"raised", "not_found"}
                       THEN ErrorEntry(f, r.res.error)
                       ELSE r.res
              results == Append(fleet.results, entry)
          IN  /\ r.res.kind \in {"not_found", "skipped"} => fault = NoFault
              /\ feeds' = r.feeds
              /\ items' = r.items
              /\ fts' = Triggers(fts, items, items')
              /\ IF fleet.k = Len(fleet.order)
                 THEN /\ fleet' = NoFleet
                      /\ last' = Call("refresh_all", fleet.order, Bool(TRUE),
                                      results, TRUE, clock)
                 ELSE /\ fleet' = [fleet EXCEPT !.k = @ + 1,
                                                !.results = results]
                      /\ last' = last
              /\ UNCHANGED <<clock, pc, loc, probe>>

\* pause_feed, lines 421-426
PauseFeed ==
    /\ Quiet
    /\ Tick
    /\ \E feed_id \in FeedArgs(feeds) :
        /\ feeds' = SetStatus(feeds, feed_id, "paused")
        /\ last' = Call("pause_feed", feed_id,
                        Bool(rowcount(feeds, feeds', feed_id) > 0), <<>>,
                        FALSE, clock + 1)
        /\ UNCHANGED <<items, fts, fleet, pc, loc, probe>>

\* resume_feed, lines 428-433
ResumeFeed ==
    /\ Quiet
    /\ Tick
    /\ \E feed_id \in FeedArgs(feeds) :
        /\ feeds' = SetStatus(feeds, feed_id, "active")
        /\ last' = Call("resume_feed", feed_id,
                        Bool(rowcount(feeds, feeds', feed_id) > 0), <<>>,
                        FALSE, clock + 1)
        /\ UNCHANGED <<items, fts, fleet, pc, loc, probe>>

\* mark_read, lines 275-281
MarkRead ==
    /\ Quiet
    /\ Tick
    /\ \E item_id \in ItemArgs(items) :
        /\ items' = SetRead(items, item_id, TRUE)
        /\ last' = Call("mark_read", item_id,
                        Bool(rowcount(items, items', item_id) > 0), <<>>,
                        FALSE, clock + 1)
        /\ UNCHANGED <<feeds, fts, fleet, pc, loc, probe>>

\* mark_unread, lines 283-288
MarkUnread ==
    /\ Quiet
    /\ Tick
    /\ \E item_id \in ItemArgs(items) :
        /\ items' = SetRead(items, item_id, FALSE)
        /\ last' = Call("mark_unread", item_id,
                        Bool(rowcount(items, items', item_id) > 0), <<>>,
                        FALSE, clock + 1)
        /\ UNCHANGED <<feeds, fts, fleet, pc, loc, probe>>

\* bookmark, lines 290-296
Bookmark ==
    /\ Quiet
    /\ Tick
    /\ \E item_id \in ItemArgs(items) :
        /\ items' = SetBookmarked(items, item_id, TRUE)
        /\ last' = Call("bookmark", item_id,
                        Bool(rowcount(items, items', item_id) > 0), <<>>,
                        FALSE, clock + 1)
        /\ UNCHANGED <<feeds, fts, fleet, pc, loc, probe>>

\* unbookmark, lines 298-303
Unbookmark ==
    /\ Quiet
    /\ Tick
    /\ \E item_id \in ItemArgs(items) :
        /\ items' = SetBookmarked(items, item_id, FALSE)
        /\ last' = Call("unbookmark", item_id,
                        Bool(rowcount(items, items', item_id) > 0), <<>>,
                        FALSE, clock + 1)
        /\ UNCHANGED <<feeds, fts, fleet, pc, loc, probe>>

\* deduplicate, lines 366-384
Deduplicate ==
    /\ Quiet
    /\ Tick
    /\ items' = deduplicate(items)
    /\ fts' = Triggers(fts, items, items')
    /\ last' = Call("deduplicate", NoId,
                    Removed(Cardinality(Deleted(items))), <<>>, FALSE, clock + 1)
    /\ UNCHANGED <<feeds, fleet, pc, loc, probe>>

Next ==
    \/ AddFeed
    \/ Refresh
    \/ RefreshAllSelect
    \/ RefreshAllNext
    \/ PauseFeed
    \/ ResumeFeed
    \/ MarkRead
    \/ MarkUnread
    \/ Bookmark
    \/ Unbookmark
    \/ Deduplicate

Spec == Init /\ [][Next]_vars

(***************************************************************************)
(* Overlapping calls.  Every `with self._connect() as conn` block of the   *)
(* source opens its own connection and commits when it is left; a SELECT   *)
(* takes no write lock, so another call's statement may run between the    *)
(* SELECT of line 220 and the INSERT of line 227.  Each thread is a caller *)
(* of add_feed or refresh, pc[t] its position and loc[t] its locals.  Of  *)
(* the statements of the try block the fetch is the one that may raise     *)
(* here; a raising store statement is in the complete calls of Refresh.    *)
(***************************************************************************)
\* the locals of refresh, lines 213-215
InFlight(feed_id, raw_items) ==
    [op |-> "refresh", feed_id |-> feed_id, raw_items |-> raw_items, k |-> 1,
     new_count |-> 0, dup_count |-> 0, error |-> NULL]

Goto(t, label, l) ==
    /\ pc' = [pc EXCEPT ![t] = label]
    /\ loc' = [loc EXCEPT ![t] = l]

\* where the for loop of line 217 goes once entry l.k is done
AfterItem(l) == IF l.k >= Len(l.raw_items) THEN "finish" ELSE "select"

\* the locals still read after the loop: the two counters
Counted(l) ==
    IF l.k > Len(l.raw_items) THEN [l EXCEPT !.raw_items = <<>>, !.k = 1] ELSE l

\* the locals still read in the except clause: the exception
Failed(feed_id, msg) == [InFlight(feed_id, <<>>) EXCEPT !.error = msg]

\* a call that overlapped others is not the second of two refreshes in
\* sequence
ConcCall(op, arg, res, fetched) ==
    [Call(op, arg, res, <<>>, fetched, clock) EXCEPT !.again = NotAgain]

\* A caller takes the first free thread: which thread runs a call makes no
\* difference to the store.
Free(t) == pc[t] = "idle" /\ \A u \in Threads : u < t => pc[u] # "idle"

\* add_feed, lines 163-174: the INSERT OR IGNORE, committed
AddInsert(t) ==
    /\ Free(t)
    /\ Quiet
    /\ Tick
    /\ \E a \in AddInputs :
        /\ feeds' = InsertFeedOrIgnore(feeds, FreshFeedId(feeds), a.name,
                                       a.url, a.category)
        /\ Goto(t, "add_return",
                [op |-> "add_feed", a |-> a, feed_id |-> FreshFeedId(feeds),
                 before |-> FeedsByUrl(feeds, a.url)])
        /\ UNCHANGED <<items, fts, last, fleet, probe>>

\* add_feed, line 175: return self.get_feed_by_url(url) or feed
AddReturn(t) ==
    /\ pc[t] = "add_return"
    /\ LET l == loc[t]
           found == FeedsByUrl(feeds, l.a.url)
       IN  \E f \in (IF found = {} THEN {l.feed_id} ELSE found) :
              last' = ConcCall("add_feed", l.a, Returned(f), FALSE)
    /\ Goto(t, "idle", Idle)
    /\ UNCHANGED <<feeds, items, fts, clock, fleet, probe>>

\* refresh, lines 206-215: get_feed, the two early exits and the fetch
RefreshBegin(t) ==
    /\ Free(t)
    /\ Quiet
    /\ Tick
    /\ \E feed_id \in FeedArgs(feeds), fails \in BOOLEAN :
        /\ IF FeedMissing(feeds, feed_id)
           THEN /\ ~fails
                /\ last' = [ConcCall("refresh", feed_id, NotFound(feed_id),
                                     FALSE) EXCEPT !.at = clock + 1]
                /\ UNCHANGED <<pc, loc>>
           ELSE IF IsPaused(feeds[feed_id])
           THEN /\ ~fails
                /\ last' = [ConcCall("refresh", feed_id, Skipped(feed_id),
                                     FALSE) EXCEPT !.at = clock + 1]
                /\ UNCHANGED <<pc, loc>>
           ELSE /\ last' = last
                /\ IF fails
                   THEN Goto(t, "except", Failed(feed_id, FetchError))
                   ELSE LET raw_items ==
                                _simulate_fetch(feeds[feed_id], clock + 1)
                        IN  Goto(t, IF raw_items = <<>> THEN "finish"
                                                        ELSE "select",
                                 InFlight(feed_id, raw_items))
        /\ UNCHANGED <<feeds, items, fts, fleet, probe>>

\* refresh, lines 218-225: the fingerprint and the existence SELECT
RefreshSelect(t) ==
    /\ pc[t] = "select"
    /\ LET l == loc[t]
           raw == l.raw_items[l.k]
           fp == _fingerprint(raw.title, raw.url)
       IN  IF ItemExists(items, fp)
           THEN Goto(t, AfterItem(l),
                     Counted([l EXCEPT !.k = @ + 1, !.dup_count = @ + 1]))
           ELSE Goto(t, "insert", l)
    /\ UNCHANGED <<feeds, items, fts, clock, last, fleet, probe>>

\* refresh, lines 226-235: uuid4 and the INSERT, committed
RefreshInsert(t) ==
    /\ pc[t] = "insert"
    /\ LET l == loc[t]
           raw == l.raw_items[l.k]
           fp == _fingerprint(raw.title, raw.url)
       IN  \E item_id \in Extreme(ItemIds \ DOMAIN items) :
              /\ items' = InsertItem(items, item_id, l.feed_id, raw, fp)
              /\ fts' = Triggers(fts, items, items')
              /\ Goto(t, AfterItem(l),
                      Counted([l EXCEPT !.k = @ + 1, !.new_count = @ + 1]))
    /\ UNCHANGED <<feeds, clock, last, fleet, probe>>

\* refresh, lines 237-251: the count, the feed update and the summary
RefreshFinish(t) ==
    /\ pc[t] = "finish"
    /\ LET l == loc[t]
           total == CountItems(items, l.feed_id)
       IN  /\ feeds' = UpdateFetched(feeds, l.feed_id, clock, total)
           /\ last' = ConcCall("refresh", l.feed_id,
                               Summary(l.feed_id, l.new_count, l.dup_count,
                                       total), TRUE)
           /\ Goto(t, "idle", Idle)
    /\ UNCHANGED <<items, fts, clock, fleet, probe>>

\* refresh, lines 253-258: the except clause
RefreshExcept(t) ==
    /\ pc[t] = "except"
    /\ feeds' = SetError(feeds, loc[t].feed_id, loc[t].error)
    /\ last' = ConcCall("refresh", loc[t].feed_id,
                        Raised(loc[t].feed_id, loc[t].error), TRUE)
    /\ Goto(t, "idle", Idle)
    /\ UNCHANGED <<items, fts, clock, fleet, probe>>

NextConc ==
    \/ \E t \in Threads : AddInsert(t)
    \/ \E t \in Threads : AddReturn(t)
    \/ \E t \in Threads : RefreshBegin(t)
    \/ \E t \in Threads : RefreshSelect(t)
    \/ \E t \in Threads : RefreshInsert(t)
    \/ \E t \in Threads : RefreshFinish(t)
    \/ \E t \in Threads : RefreshExcept(t)
    \/ PauseFeed
    \/ ResumeFeed
    \/ Deduplicate

SpecConc == Init /\ [][NextConc]_vars

(***************************************************************************)
(* _fingerprint on its own (lines 154-158): a static method, applied to    *)
(* two (title, url) pairs a and b of at most MaxText characters each,      *)
(* over a capital letter, its small letter and a blank.                     *)
(***************************************************************************)
Alphabet == {"A", "a", " "}

Texts == UNION {[1..n -> Alphabet] : n \in 0..MaxText}

Pairs == {p \in [title : Texts, url : Texts] :
            Len(p.title) + Len(p.url) <= MaxText}

InitFp == Constructed /\ probe \in [a : Pairs, b : Pairs, out : {<<>>}]

\* the two calls: out[1] is the fingerprint of a, out[2] that of b
Fingerprint ==
    /\ probe.out = <<>>
    /\ probe' = [probe EXCEPT !.out =
                    <<_fingerprint(probe.a.title, probe.a.url),
                      _fingerprint(probe.b.title, probe.b.url)>>]
    /\ UNCHANGED <<feeds, items, fts, clock, last, fleet, pc, loc>>

NextFp == Fingerprint

SpecFp == InitFp /\ [][NextFp]_vars

(***************************************************************************)
(* Properties of complete, non-overlapping calls (Spec).                    *)
(***************************************************************************)
\* the step completes a call (every call is made at its own time)
Returns == last' # last

Fingerprints(its) == {its[i].fingerprint : i \in DOMAIN its}

\* C1: in every state reached by complete, non-overlapping calls no two
\* stored items have the same fingerprint.
C1_UniqueFingerprints ==
    \A i, j \in DOMAIN items :
        i # j => items[i].fingerprint # items[j].fingerprint

\* a refresh found both fetched entries stored by another feed and stored
\* nothing
C1_Witness ==
    /\ last.op = "refresh"
    /\ last.res.kind = "summary"
    /\ last.res.new_items = 0
    /\ last.res.duplicates = 2
    /\ items # <<>>
    /\ \A i \in DOMAIN items : items[i].feed_id # last.arg

\* C3: a successful refresh directly followed by a refresh of the same feed
\* with the same fetched content: the second returns new_items = 0 and the
\* stored items are the same before and after it.
C3_SecondRefreshAddsNothing ==
    [][(Returns /\ last'.op = "refresh" /\ last'.again.valid
            /\ last'.res.kind = "summary")
          => (last'.res.new_items = 0 /\ items' = items)]_vars

\* the first refresh stored items and the second one completed
C3_Witness ==
    /\ last.op = "refresh"
    /\ last.again.valid
    /\ last.res.kind = "summary"
    /\ last.again.new_items > 0

\* C4 as claimed: the second refresh's duplicates equal the first refresh's
\* new_items.
C4_DuplicatesEqualFirstNew ==
    (last.op = "refresh" /\ last.again.valid /\ last.res.kind = "summary")
        => last.res.duplicates = last.again.new_items

\* C4 as amended: the second refresh's duplicates equal the first refresh's
\* new_items plus its duplicates (every fetched entry is a duplicate the
\* second time).
C4_DuplicatesEqualFirstTotal ==
    (last.op = "refresh" /\ last.again.valid /\ last.res.kind = "summary")
        => last.res.duplicates = last.again.new_items + last.again.duplicates

\* the first refresh already met a duplicate and the second one completed
C4_Witness ==
    /\ last.op = "refresh"
    /\ last.again.valid
    /\ last.res.kind = "summary"
    /\ last.again.duplicates > 0
    /\ last.again.new_items > 0

\* C5: refresh of a paused feed returns the skip result, does not invoke
\* the fetcher and leaves every feed and every item as it was.
C5_PausedRefreshSkips ==
    [][(Returns /\ last'.op = "refresh" /\ last'.arg \in DOMAIN feeds
            /\ feeds[last'.arg].status = "paused")
          => /\ last'.res.kind = "skipped"
             /\ ~last'.fetched
             /\ feeds' = feeds
             /\ items' = items]_vars

\* a paused feed that had been refreshed before was refreshed again
C5_Witness ==
    /\ last.op = "refresh"
    /\ last.res.kind = "skipped"
    /\ feeds[last.arg].last_fetched # NullTime
    /\ feeds[last.arg].item_count > 0

\* C6: refresh of an id that matches no feed raises NotFound and leaves
\* every feed and every item as it was.
C6_MissingFeedRaises ==
    [][(Returns /\ last'.op = "refresh" /\ last'.arg \notin DOMAIN feeds)
          => /\ last'.res.kind = "not_found"
             /\ feeds' = feeds
             /\ items' = items]_vars

\* a refresh of an unknown id was made while feeds were stored
C6_Witness ==
    /\ last.op = "refresh"
    /\ last.res.kind = "not_found"
    /\ DOMAIN feeds # {}

Range(seq) == {seq[k] : k \in 1..Len(seq)}

\* C9: refresh_all refreshes each feed that is active when the call starts
\* exactly once and no other feed, returns one entry per such feed (an
\* error entry for a refresh that raised, the later feeds still being
\* refreshed), and leaves paused and error feeds as they were.
C9_FleetRefresh ==
    [][/\ (~fleet.running /\ fleet'.running) =>
            /\ Range(fleet'.order) =
                  {f \in DOMAIN feeds : feeds[f].status = "active"}
            /\ Len(fleet'.order) = Cardinality(Range(fleet'.order))
            /\ fleet'.k = 1
       /\ fleet.running =>
            /\ \A g \in DOMAIN feeds \ {fleet.order[fleet.k]} :
                  feeds'[g] = feeds[g]
            /\ \A i \in DOMAIN items :
                  i \in DOMAIN items' /\ items'[i] = items[i]
            /\ fleet'.running =>
                  fleet'.order = fleet.order /\ fleet'.k = fleet.k + 1
            /\ ~fleet'.running => fleet.k = Len(fleet.order)
       /\ (Returns /\ last'.op = "refresh_all") =>
            LET order == last'.arg
                results == last'.results
            IN  /\ Len(results) = Len(order)
                /\ \A k \in 1..Len(order) :
                      /\ results[k].feed_id = order[k]
                      /\ \/ /\ results[k].kind = "summary"
                            /\ feeds'[order[k]].status = "active"
                            /\ feeds'[order[k]].last_fetched = last'.at
                         \/ /\ results[k].kind = "error"
                            /\ results[k].error # NULL
                            /\ feeds'[order[k]].status = "error"
                /\ \A g \in DOMAIN feeds' \ Range(order) :
                      /\ feeds'[g].last_fetched # last'.at
                      /\ feeds'[g].status # "active"
                /\ order = <<>> => (feeds' = feeds /\ items' = items)]_vars

\* the first feed's refresh raised and the second feed was still refreshed
C9_Witness ==
    /\ last.op = "refresh_all"
    /\ Len(last.results) = 2
    /\ last.results[1].kind = "error"
    /\ last.results[2].kind = "summary"
    /\ last.results[2].new_items > 0

(***************************************************************************)
(* C10: the flag operations and the filtered listings.                      *)
(***************************************************************************)
Limits == {1, DefaultLimit}

FlagOps == {"mark_read", "mark_unread", "bookmark", "unbookmark"}

\* the call changed nothing but one flag of item i
OnlyFlag(i, flag) ==
    /\ feeds' = feeds
    /\ DOMAIN items' = DOMAIN items
    /\ \A j \in DOMAIN items \ {i} : items'[j] = items[j]
    /\ IF flag = "is_read"
       THEN items'[i] = [items[i] EXCEPT !.is_read = items'[i].is_read]
       ELSE items'[i] =
               [items[i] EXCEPT !.is_bookmarked = items'[i].is_bookmarked]

\* what C10 says of every flag call but the re-inclusion after mark_unread
FlagsFollow(i) ==
    /\ last'.op = "mark_read" =>
          /\ items'[i].is_read /\ OnlyFlag(i, "is_read")
          /\ \A limit \in Limits :
                i \notin get_items(items', items'[i].feed_id, limit, TRUE)
    /\ last'.op = "mark_unread" =>
          /\ ~items'[i].is_read /\ OnlyFlag(i, "is_read")
    /\ last'.op = "bookmark" =>
          /\ items'[i].is_bookmarked /\ OnlyFlag(i, "is_bookmarked")
          /\ i \in get_bookmarks(items')
    /\ last'.op = "unbookmark" =>
          /\ ~items'[i].is_bookmarked /\ OnlyFlag(i, "is_bookmarked")
          /\ i \notin get_bookmarks(items')

\* the unread items of i's feed
Unread(its, i) ==
    {j \in DOMAIN its : its[j].feed_id = its[i].feed_id /\ ~its[j].is_read}

\* C10 as claimed: after mark_unread(i) the unread-only listing of i's feed
\* includes i, whatever the limit of the listing.
C10_FlagsAndListings ==
    [][(Returns /\ last'.op \in FlagOps /\ last'.arg \in DOMAIN items) =>
          LET i == last'.arg
          IN  /\ FlagsFollow(i)
              /\ last'.op = "mark_unread" =>
                    \A limit \in Limits :
                        i \in get_items(items', items'[i].feed_id, limit, TRUE)
      ]_vars

\* C10 as amended: after mark_unread(i) the unread-only listing of i's feed
\* includes i when its limit is at least the number of unread items of the
\* feed; the rest as claimed.
C10_FlagsAndBoundedListings ==
    [][(Returns /\ last'.op \in FlagOps /\ last'.arg \in DOMAIN items) =>
          LET i == last'.arg
          IN  /\ FlagsFollow(i)
              /\ last'.op = "mark_unread" =>
                    \A limit \in Limits :
                        limit >= Cardinality(Unread(items', i)) =>
                          i \in get_items(items', items'[i].feed_id, limit, TRUE)
      ]_vars

\* an item that was read and bookmarked was marked unread again, in a feed
\* with another unread item
C10_Witness ==
    /\ last.op = "mark_unread"
    /\ last.arg \in DOMAIN items
    /\ Cardinality(Unread(items, last.arg)) = 2
    /\ last.arg \in get_items(items, items[last.arg].feed_id, DefaultLimit, TRUE)

(***************************************************************************)
(* Properties of overlapping calls (SpecConc).                              *)
(***************************************************************************)
\* C2: whatever the interleaving of the statements of two refresh calls,
\* the store never holds two items with the same fingerprint.
C2_NoDuplicateUnderInterleaving ==
    \A fp \in Fingerprints(items) : Cardinality(Group(items, fp)) <= 1

\* C7: add_feed with a stored URL creates no feed record, leaves every feed
\* as it was and returns the feed stored under that URL by the first add;
\* no two feeds ever share a URL, overlapping add_feed calls included.
C7_AddExistingUrl ==
    [][/\ \A f, g \in DOMAIN feeds' :
              f # g => feeds'[f].url # feeds'[g].url
       /\ \A t \in Threads :
            /\ (pc[t] = "idle" /\ pc'[t] = "add_return") =>
                  /\ loc'[t].before # {} => feeds' = feeds
                  /\ \A f \in DOMAIN feeds : feeds'[f] = feeds[f]
            /\ (pc[t] = "add_return" /\ pc'[t] = "idle") =>
                  /\ last'.op = "add_feed"
                  /\ last'.res.feed_id \in DOMAIN feeds'
                  /\ feeds'[last'.res.feed_id].url = loc[t].a.url
                  /\ loc[t].before # {} => last'.res.feed_id \in loc[t].before
                  /\ feeds' = feeds]_vars

\* an add_feed whose URL was stored, under another name and category,
\* returned the feed of the first add
C7_Witness ==
    /\ last.op = "add_feed"
    /\ last.res.feed_id \in DOMAIN feeds
    /\ feeds[last.res.feed_id].url = last.arg.url
    /\ feeds[last.res.feed_id].name # last.arg.name
    /\ Cardinality(DOMAIN feeds) = 1

\* C8: when deduplicate returns, every fingerprint that had an item before
\* the call has exactly one item left (and no other item is there).
C8_OnePerFingerprint ==
    [][(Returns /\ last'.op = "deduplicate") =>
          /\ \A fp \in Fingerprints(items) :
                Cardinality(Group(items', fp)) = 1
          /\ \A i \in DOMAIN items' :
                i \in DOMAIN items /\ items'[i] = items[i]]_vars

\* deduplicate ran on a table that held duplicates
C8_Witness ==
    /\ last.op = "deduplicate"
    /\ last.res.duplicates_removed > 0
    /\ items # <<>>

(***************************************************************************)
(* The updates by id: pause_feed, resume_feed and the flag operations      *)
(* (Spec).                                                                  *)
(***************************************************************************)
FeedOps == {"pause_feed", "resume_feed"}

\* C11: pause_feed, resume_feed, mark_read, mark_unread, bookmark and
\* unbookmark return a boolean and raise nothing; with an id of no stored
\* record they return false and leave every feed and every item as it was,
\* with the id of a stored record they return true, also when the record
\* already is in the requested state.
C11_UpdateById ==
    [][(Returns /\ last'.op \in FeedOps \cup FlagOps) =>
          LET table == IF last'.op \in FeedOps THEN feeds ELSE items
          IN  /\ last'.res.kind = "bool"
              /\ IF last'.arg \in DOMAIN table
                 THEN last'.res.ok
                 ELSE ~last'.res.ok /\ feeds' = feeds /\ items' = items
      ]_vars

\* the second call ever made resumed a feed: the feed had just been added
\* and was active already
C11_Witness ==
    /\ last.op = "resume_feed"
    /\ last.at = 2
    /\ last.res.ok
    /\ feeds[last.arg].status = "active"

(***************************************************************************)
(* Properties of _fingerprint (SpecFp).                                     *)
(***************************************************************************)
\* the text between the first and the last character that is not whitespace
Core(s) ==
    LET inked == {k \in 1..Len(s) : s[k] \notin Whitespace}
    IN  IF inked = {} THEN <<>>
        ELSE SubSeq(s, CHOOSE k \in inked : \A j \in inked : k <= j,
                       CHOOSE k \in inked : \A j \in inked : k >= j)

\* the same character, or the capital and the small form of one letter
SameLetter(c, d) ==
    c = d \/ \E k \in DOMAIN Upper : {c, d} = {Upper[k], Lower[k]}

\* s and t differ at most in letter case and in leading or trailing
\* whitespace
Alike(s, t) ==
    /\ Len(Core(s)) = Len(Core(t))
    /\ \A k \in 1..Len(Core(s)) : SameLetter(Core(s)[k], Core(t)[k])

Normalized(s) == strip(lower(s))

\* character k of the text that is hashed: the normalized title followed
\* by the normalized url
Hashed(p, k) ==
    IF k <= Len(Normalized(p.title))
    THEN Normalized(p.title)[k]
    ELSE Normalized(p.url)[k - Len(Normalized(p.title))]

HashedLen(p) == Len(Normalized(p.title)) + Len(Normalized(p.url))

\* a and b give the same text to hash
SameHashed(a, b) ==
    /\ HashedLen(a) = HashedLen(b)
    /\ \A k \in 1..HashedLen(a) : Hashed(a, k) = Hashed(b, k)

\* C13 as claimed: two pairs whose normalized titles differ or whose
\* normalized urls differ have different fingerprints.
C13_DiffersOnAnyChange ==
    probe.out # <<>> =>
        ((Normalized(probe.a.title) # Normalized(probe.b.title)
            \/ Normalized(probe.a.url) # Normalized(probe.b.url))
          => probe.out[1] # probe.out[2])

\* C13 as amended: two pairs have different fingerprints exactly when the
\* normalized title followed by the normalized url is a different text (the
\* hash taken as injective); pairs whose normalized titles differ, or whose
\* urls do, have the same fingerprint when that text is the same.
C13_DiffersWithHashedText ==
    probe.out # <<>> =>
        (probe.out[1] # probe.out[2] <=> ~SameHashed(probe.a, probe.b))

\* "aa" with url "a" and "a" with url "aa": the titles differ, the urls
\* differ, the fingerprint is the same
C13_Witness ==
    /\ probe.out # <<>>
    /\ probe.a = [title |-> <<"a", "a">>, url |-> <<"a">>]
    /\ probe.b = [title |-> <<"a">>, url |-> <<"a", "a">>]
    /\ probe.out[1] = probe.out[2]

(***************************************************************************)
(* The full-text index (SpecConc: the tables deduplicate deletes from are  *)
(* the ones overlapping refreshes leave).                                   *)
(***************************************************************************)
\* the one-word queries: every word of every title
Queries == {Lower[k] : k \in DOMAIN Lower}

SearchLimits == {1, SearchLimit}

\* the stored items with the word q in their title
Matches(its, q) == {i \in DOMAIN its : q \in Terms(its[i].title)}

\* the index has one row per stored item, under the item's rowid and with
\* the item's terms, and no other row
IndexExact(its, idx) ==
    /\ \A i, j \in DOMAIN its : i # j => its[i].rowid # its[j].rowid
    /\ DOMAIN idx = Rowids(its)
    /\ \A i \in DOMAIN its : idx[its[i].rowid] = Terms(its[i].title)

\* what C14 says but for the search right after an insert: after a step
\* that writes feed_items or the index, the index holds exactly the stored
\* items, and a search returns only stored items that have the word (so no
\* deleted item, and nothing for a word no stored item has)
IndexFollows ==
    (items' # items \/ fts' # fts) =>
        /\ IndexExact(items', fts')
        /\ \A q \in Queries, limit \in SearchLimits :
              LET found == search(items', fts', q, limit)
              IN  /\ found \subseteq Matches(items', q)
                  /\ Matches(items', q) # {} => found # {}

\* C14 as claimed: an item inserted by refresh is returned by a search for
\* a word of its title made right after the insert, whatever the limit of
\* the search.
C14_IndexAndSearch ==
    [][/\ IndexFollows
       /\ \A i \in DOMAIN items' \ DOMAIN items :
            \A q \in Terms(items'[i].title), limit \in SearchLimits :
                i \in search(items', fts', q, limit)
      ]_vars

\* C14 as amended: an item inserted by refresh is returned by a search for
\* a word of its title made right after the insert when the limit of the
\* search is at least the number of stored items with that word; the rest
\* as claimed.
C14_IndexAndBoundedSearch ==
    [][/\ IndexFollows
       /\ \A i \in DOMAIN items' \ DOMAIN items :
            \A q \in Terms(items'[i].title), limit \in SearchLimits :
                limit >= Cardinality(Matches(items', q)) =>
                    i \in search(items', fts', q, limit)
      ]_vars

\* deduplicate deleted a row that was not the last one inserted, and a
\* search for the word of the deleted item returns the survivor alone
C14_Witness ==
    /\ last.op = "deduplicate"
    /\ last.res.duplicates_removed > 0
    /\ IndexExact(items, fts)
    /\ DOMAIN fts # 1..Cardinality(DOMAIN fts)
    /\ \E q \in Queries :
          Cardinality(search(items, fts, q, SearchLimit)) = 1

(***************************************************************************)
(* The feed's health fields after a refresh (Spec).                         *)
(***************************************************************************)
\* C15: after a refresh of a feed returns its summary, the feed has status
\* active, its error_message is NULL and its last_fetched is the time of
\* this refresh, also when the feed was in error with a stored message.
C15_SuccessClearsError ==
    [][(Returns /\ last'.op = "refresh" /\ last'.res.kind = "summary") =>
          /\ feeds'[last'.arg].status = "active"
          /\ feeds'[last'.arg].error_message = NULL
          /\ feeds'[last'.arg].last_fetched = last'.at
      ]_vars

\* the fingerprints of the entries the fetcher returns for feed f at time
\* now, in order
Fetched(f, now) ==
    LET raw_items == _simulate_fetch(feeds[f], now)
    IN  [k \in 1..Len(raw_items) |->
            _fingerprint(raw_items[k].title, raw_items[k].url)]

C17_ErrorLeftByRefreshOnly ==
    [][\A f \in DOMAIN feeds :
          /\ (feeds[f].status = "error" /\ feeds'[f].status # "error") =>
                /\ Returns
                /\ last'.op = "refresh"
                /\ last'.arg = f
                /\ last'.res.kind = "summary"
                /\ feeds'[f].status = "active"
          /\ (Returns /\ last'.op \in FeedOps
                 /\ feeds'[f].status # feeds[f].status) =>
                {feeds[f].status, feeds'[f].status} = {"active", "paused"}
      ]_vars

(***************************************************************************)
(* pause_feed against a refresh in progress (SpecConc).                     *)
(***************************************************************************)
\* C18: a feed that is paused (pause_feed returned true) stays paused until
\* resume_feed is called for it: no step of a refresh changes its status,
\* also not the last step of a refresh that read the feed before the pause.
C18_PausedUntilResumed ==
    [][\A f \in DOMAIN feeds :
          (feeds[f].status = "paused" /\ feeds'[f].status # "paused") =>
              (Returns /\ last'.op = "resume_feed" /\ last'.arg = f)
      ]_vars

(***************************************************************************)
(* Deduplication across feeds (Spec).                                       *)
(***************************************************************************)
\* the entries fetched for feed f at time now whose fingerprint is stored
\* under another feed
StoredElsewhere(f, now) ==
    {k \in DOMAIN Fetched(f, now) :
        \E i \in DOMAIN items :
            /\ items[i].fingerprint = Fetched(f, now)[k]
            /\ items[i].feed_id # f}

\* C19: when a refresh of feed B fetches an entry whose fingerprint is
\* stored under another feed A, the entry is counted in B's duplicates, no
\* item is inserted for it, the stored item stays as it was, under A, and
\* B's total_items and item_count count B's own items only.
C19_CrossFeedDuplicate ==
    [][(Returns /\ last'.op = "refresh" /\ last'.res.kind = "summary") =>
          LET B == last'.arg
              fps == Fetched(B, last'.at)
              elsewhere == StoredElsewhere(B, last'.at)
          IN  /\ last'.res.duplicates =
                    Cardinality({k \in DOMAIN fps : ItemExists(items, fps[k])})
              /\ last'.res.duplicates >= Cardinality(elsewhere)
              /\ \A k \in elsewhere, i \in DOMAIN items' :
                    items'[i].fingerprint = fps[k] =>
                        /\ i \in DOMAIN items
                        /\ items'[i] = items[i]
                        /\ items'[i].feed_id # B
              /\ last'.res.total_items =
                    Cardinality({i \in DOMAIN items' : items'[i].feed_id = B})
              /\ feeds'[B].item_count = last'.res.total_items
      ]_vars

\* a feed was refreshed whose two entries another feed had stored: both
\* are duplicates and the feed has no item of its own
C19_Witness ==
    /\ last.op = "refresh"
    /\ last.res.kind = "summary"
    /\ last.res.duplicates = 2
    /\ last.res.total_items = 0
    /\ feeds[last.arg].item_count = 0
    /\ Cardinality(DOMAIN items) = 2
    /\ \E A \in DOMAIN feeds \ {last.arg} :
          \A i \in DOMAIN items : items[i].feed_id = A

Accurate(res) ==
    LET f == res.feed_id
    IN  /\ f \in DOMAIN feeds
        /\ res.new_items + res.duplicates =
              Len(_simulate_fetch(feeds[f], clock'))
        /\ res.new_items = Cardinality(DOMAIN items' \ DOMAIN items)
        /\ DOMAIN items \subseteq DOMAIN items'
        /\ \A i \in DOMAIN items' \ DOMAIN items : items'[i].feed_id = f
        /\ res.total_items =
              Cardinality({i \in DOMAIN items' : items'[i].feed_id = f})
        /\ feeds'[f].item_count = res.total_items

\* the entry a pass of refresh_all's loop appended to its results
FleetEntry ==
    LET results == IF fleet'.running THEN fleet'.results ELSE last'.results
    IN  results[Len(results)]

\* C21: the summary of every successful refresh, called directly or by
\* refresh_all, is accurate: new_items + duplicates is the number of entries
\* the fetcher returned, new_items the number of items this call inserted,
\* and total_items the number of stored items of the feed and the feed's
\* item_count right after the call.
C21_SummaryAccurate ==
    [][/\ (Returns /\ last'.op = "refresh" /\ last'.res.kind = "summary")
            => Accurate(last'.res)
       /\ (fleet.running /\ FleetEntry.kind = "summary")
            => Accurate(FleetEntry)
      ]_vars

\* a refresh that stored one entry and failed was followed by a refresh of
\* the same feed: one entry was a duplicate, the other new
C21_Witness ==
    /\ last.op = "refresh"
    /\ last.res.kind = "summary"
    /\ last.res.new_items = 1
    /\ last.res.duplicates = 1
    /\ last.res.total_items = 2
    /\ feeds[last.arg].item_count = 2
    /\ CountItems(items, last.arg) = 2

(***************************************************************************)
(* What removes rows (SpecConc: the tables hold the duplicates overlapping *)
(* refreshes leave, so a sweep has rows to delete).                         *)
(***************************************************************************)
\* the rows of feed_items the step deleted
Removed_Items == DOMAIN items \ DOMAIN items'

\* the step is a statement of a refresh, or the return of one
RefreshStep ==
    \/ Returns /\ last'.op = "refresh"
    \/ \E t \in Threads :
          /\ pc'[t] # pc[t]
          /\ {pc[t], pc'[t]} \cap {"select", "insert", "finish", "except"} # {}

\* C22: no step removes a feed; a step that removes items is a deduplicate,
\* and each item it removes leaves another item with its fingerprint
\* behind; every other step (of add_feed, refresh, pause_feed, resume_feed,
\* and in Spec of refresh_all and the flag operations) leaves every stored
\* item id stored, and a step of a refresh leaves every stored item as it
\* was, also in a table that holds duplicates: refresh does not sweep.
C22_OnlySweepRemoves ==
    [][/\ DOMAIN feeds \subseteq DOMAIN feeds'
       /\ Removed_Items # {} =>
            /\ Returns
            /\ last'.op = "deduplicate"
            /\ \A i \in Removed_Items :
                  \E j \in DOMAIN items' :
                      items'[j].fingerprint = items[i].fingerprint
       /\ RefreshStep =>
            /\ \A i \in DOMAIN items :
                  i \in DOMAIN items' /\ items'[i] = items[i]
            /\ Deleted(items) \subseteq Deleted(items')
      ]_vars

\* a refresh ran on a table with two items of one fingerprint, found its
\* entries stored, and returned with both items still there
C22_Witness ==
    /\ last.op = "refresh"
    /\ last.res.kind = "summary"
    /\ last.res.duplicates > 0
    /\ last.res.new_items = 0
    /\ Deleted(items) # {}
    /\ \A t \in Threads : pc[t] = "idle"

(***************************************************************************)
(* The cached item_count of a feed (Spec).                                  *)
(***************************************************************************)
\* C23: whenever no call is in progress, every feed's item_count is the
\* number of stored items of that feed, also after a deduplicate that
\* deleted items and after a refresh that failed part-way.
C23_CountIsCurrent ==
    (Quiet /\ \A t \in Threads : pc[t] = "idle") =>
        \A f \in DOMAIN feeds :
            feeds[f].item_count =
                Cardinality({i \in DOMAIN items : items[i].feed_id = f})


====
